---- MODULE Spec2Model ----
(***************************************************************************)
(* State machine of the TextboxColor component                             *)
(* (packages/ui/src/components/textbox/textbox-color/textbox-color.tsx).   *)
(*                                                                         *)
(* Strings are sequences of one-character strings, so that slicing,        *)
(* upper-casing, normalisation and hex arithmetic are computed, not        *)
(* assumed.  One user event is handled in one step (the handler and every  *)
(* handler it triggers synchronously through dispatchEvent() or blur());   *)
(* the framework's re-render, which is scheduled asynchronously and runs   *)
(* before the next user event, is the step Render.                         *)
(***************************************************************************)
EXTENDS Integers, Sequences, FiniteSets, TLC

VARIABLES
    hexColor,               \* the `hexColor` prop supplied by the host
    originalHexColor,       \* the useState value (line 64)
    textValue,              \* DOM value of the hex text <input>
    pickerValue,            \* DOM value of the <input type="color">
    focus,                  \* "none" | "text" | "picker"
    propagateEscapeKeyDown, \* prop
    revertOnEscapeKeyDown,  \* prop
    hostAdopts,             \* the host stores every forwarded value as hexColor
    pc,                     \* "idle" (rendered) | "handled" (handlers returned)
    event,                  \* the user event handled last
    pre,                    \* the state the handlers of `event` started from
    calls,                  \* observer calls made while handling `event`
    hexColorAtFocus,        \* history: hexColor prop when the focused surface gained focus
    arrowPresses,           \* number of ArrowUp/ArrowDown presses so far
    opacity                 \* the `opacity` prop supplied by the host

vars == <<hexColor, originalHexColor, textValue, pickerValue, focus,
          propagateEscapeKeyDown, revertOnEscapeKeyDown, hostAdopts, pc,
          event, pre, calls, hexColorAtFocus, arrowPresses, opacity>>

\* Bound on the number of arrow-key presses in one behaviour.
MaxArrowPresses == 2

-----------------------------------------------------------------------------
(* Strings *)

EMPTY_STRING == <<>>

EMPTY_HEX_COLOR == <<"F","F","F","F","F","F">>

\* The reserved sentinel string: one opaque token that is no hex digit.
MIXED_STRING == <<"<mixed>">>

\* The text shown for the sentinel (line 274).
MixedText == <<"M","i","x","e","d">>

\* The "no result" outcome of the normalizer.
null == <<"<null>">>

HexDigits == <<"0","1","2","3","4","5","6","7","8","9","A","B","C","D","E","F">>

LowerChars == <<"a","b","c","d","e","f","z">>

UpperChars == <<"A","B","C","D","E","F","Z">>

ToUpperChar(c) ==
    IF \E i \in 1..Len(LowerChars) : LowerChars[i] = c
    THEN UpperChars[CHOOSE i \in 1..Len(LowerChars) : LowerChars[i] = c]
    ELSE c

ToLowerChar(c) ==
    IF \E i \in 1..Len(UpperChars) : UpperChars[i] = c
    THEN LowerChars[CHOOSE i \in 1..Len(UpperChars) : UpperChars[i] = c]
    ELSE c

\* String.prototype.toUpperCase
ToUpperCase(s) == [i \in 1..Len(s) |-> ToUpperChar(s[i])]

ToLowerCase(s) == [i \in 1..Len(s) |-> ToLowerChar(s[i])]

\* String.prototype.slice(1)
Slice1(s) == IF Len(s) = 0 THEN <<>> ELSE Tail(s)

IsHexChar(c) == \E i \in 1..16 : HexDigits[i] = ToUpperChar(c)

IsUpperHexChar(c) == \E i \in 1..16 : HexDigits[i] = c

HexVal(c) == (CHOOSE i \in 1..16 : HexDigits[i] = ToUpperChar(c)) - 1

\* A 6-character string over [0-9A-F].
IsCanonicalHex(s) == Len(s) = 6 /\ \A i \in 1..6 : IsUpperHexChar(s[i])

-----------------------------------------------------------------------------
(* Hex normalizer (private/normalize-hex-color) *)

normalizeHexColor(s) ==
    LET t == IF Len(s) > 0 /\ s[1] = "#" THEN Tail(s) ELSE s
        u == ToUpperCase(t)
    IN  IF \A i \in 1..Len(t) : IsHexChar(t[i])
        THEN IF Len(t) = 6 THEN u
             ELSE IF Len(t) = 3 THEN <<u[1],u[1],u[2],u[2],u[3],u[3]>>
             ELSE null
        ELSE null

-----------------------------------------------------------------------------
(* Hex incrementer (private/update-hex-color) *)

MaxHexValue == 16777215

HexToInt(s) ==
    HexVal(s[1]) * 1048576 + HexVal(s[2]) * 65536 + HexVal(s[3]) * 4096
      + HexVal(s[4]) * 256 + HexVal(s[5]) * 16 + HexVal(s[6])

Pow16(k) == IF k = 0 THEN 1 ELSE IF k = 1 THEN 16 ELSE IF k = 2 THEN 256
            ELSE IF k = 3 THEN 4096 ELSE IF k = 4 THEN 65536 ELSE 1048576

IntToHex6(n) == [i \in 1..6 |-> HexDigits[((n \div Pow16(6 - i)) % 16) + 1]]

Clamp(n) == IF n < 0 THEN 0 ELSE IF n > MaxHexValue THEN MaxHexValue ELSE n

\* Defined for a valid 6-digit hex string only (its contract).
updateHexColor(hex, delta) == IntToHex6(Clamp(HexToInt(hex) + delta))

-----------------------------------------------------------------------------
(* Values the environment supplies *)

\* hexColor props a host supplies on its own: unset, mixed, or 6-digit hex.
HostHexColors ==
    { EMPTY_STRING, MIXED_STRING, <<"F","F","0","0","C","C">>,
      <<"0","0","0","0","0","0">>, <<"F","F","F","F","F","F">> }

\* Texts a user leaves in the text field by typing.
TypedTexts ==
    { EMPTY_STRING, <<"z","z","z","z","z","z">>, <<"f","0","c">>,
      <<"#","A","B","C","D","E","F">>, <<"F","F","0","0","C","C">>,
      <<"1","2">> }

\* Values the native colour picker reports ('#' and six lowercase digits).
PickedColors == { <<"#","1","2","3","a","b","c">>, <<"#","f","f","0","0","c","c">> }

Keys == { "Escape", "Enter", "ArrowUp", "ArrowDown", "a" }

-----------------------------------------------------------------------------
(* Render (lines 212-275) *)

\* lines 214-219
renderedHexColor(hex, original) ==
    LET normalizedHexColor ==
            IF hex = EMPTY_STRING \/ hex = MIXED_STRING
            THEN EMPTY_HEX_COLOR
            ELSE normalizeHexColor(hex)
    IN  IF normalizedHexColor = null THEN original ELSE normalizedHexColor

\* line 274: the value prop of the text field
\* Variant: the sentinel is shown as it is.
TextDisplayRaw(hex) == hex

TextDisplay(hex) == IF hex = MIXED_STRING THEN MixedText ELSE hex

\* What <input type="color"> keeps of an assigned value: '#' and six hex
\* digits in lower case, otherwise #000000.
SanitizeColor(s) ==
    IF Len(s) = 7 /\ s[1] = "#" /\ \A i \in 2..7 : IsHexChar(s[i])
    THEN ToLowerCase(s)
    ELSE <<"#","0","0","0","0","0","0">>

\* line 258: the value prop of the colour picker, as the element keeps it
PickerDisplay(hex, original) == SanitizeColor(<<"#">> \o renderedHexColor(hex, original))

-----------------------------------------------------------------------------
(* Handlers.  A handler maps the mutable part m of the component (DOM      *)
(* values, focus, hook state, observer calls, event flags) to its value    *)
(* when the handler returns.  Props and hook state read through a closure  *)
(* are the unprimed variables: every handler of one user event was created *)
(* by the render that preceded the event.                                  *)

Call(fn, v) == [fn |-> fn, value |-> v]

NoPre == [hexColor |-> <<>>, originalHexColor |-> <<>>, textValue |-> <<>>,
          focus |-> "none"]

Mutable ==
    [textValue |-> textValue, pickerValue |-> pickerValue,
     originalHexColor |-> originalHexColor, focus |-> focus, calls |-> <<>>,
     propagationStopped |-> FALSE, defaultPrevented |-> FALSE,
     incrementerArg |-> <<>>]

\* lines 140-147
\* Variant: the value observer is called before the event observer.
handleHexColorInputValueFirst(m) ==
    [m EXCEPT !.calls = @ \o << Call("onHexColorValueInput", m.textValue),
                                Call("onHexColorInput", m.textValue) >>]

handleHexColorInput(m) ==
    [m EXCEPT !.calls = @ \o << Call("onHexColorInput", m.textValue),
                                Call("onHexColorValueInput", m.textValue) >>]

\* element.value = v; dispatchEvent(input) on the text field: the onInput
\* listener runs before dispatchEvent returns.
WriteAndDispatch(m, v) == handleHexColorInput([m EXCEPT !.textValue = v])

\* lines 71-77
handleHexColorSelectorFocus(m) ==
    [m EXCEPT !.originalHexColor = ToUpperCase(Slice1(m.pickerValue))]

\* lines 79-90
\* Variant: the picker's value is not upper-cased.
handleHexColorSelectorInputNoUpperCase(m) ==
    LET hex == Slice1(m.pickerValue)
        m1  == [m EXCEPT !.calls = @ \o << Call("onHexColorValueInput", hex) >>]
    IN  WriteAndDispatch(m1, hex)

handleHexColorSelectorInput(m) ==
    LET hex == ToUpperCase(Slice1(m.pickerValue))
        m1  == [m EXCEPT !.calls = @ \o << Call("onHexColorValueInput", hex) >>]
    IN  WriteAndDispatch(m1, hex)

\* lines 92-111; the colour picker has no blur listener
handleHexColorSelectorKeyDown(m, key) ==
    IF key # "Escape" THEN m
    ELSE LET m1 == IF propagateEscapeKeyDown = FALSE
                   THEN [m EXCEPT !.propagationStopped = TRUE] ELSE m
             m2 == IF revertOnEscapeKeyDown = TRUE
                   THEN [WriteAndDispatch(m1, originalHexColor)
                            EXCEPT !.originalHexColor = EMPTY_STRING]
                   ELSE m1
         IN  [m2 EXCEPT !.focus = "none"]

\* lines 113-130
\* Variant: rejected text is left in the field instead of falling back.
handleHexColorBlurKeepsRejected(m) ==
    LET hex == m.textValue
        normalizedHexColor == normalizeHexColor(hex)
        newHexColor == IF normalizedHexColor = null THEN hex ELSE normalizedHexColor
        m1 == IF hex # EMPTY_STRING /\ hex # MIXED_STRING /\ newHexColor # hex
              THEN WriteAndDispatch(m, newHexColor)
              ELSE m
    IN  [m1 EXCEPT !.originalHexColor = EMPTY_STRING]

\* Variant: the new value is written without dispatching an input event.
handleHexColorBlurSilent(m) ==
    LET hex == m.textValue
        normalizedHexColor == normalizeHexColor(hex)
        newHexColor == IF normalizedHexColor = null
                       THEN originalHexColor ELSE normalizedHexColor
        m1 == IF hex # EMPTY_STRING /\ hex # MIXED_STRING /\ newHexColor # hex
              THEN [m EXCEPT !.textValue = newHexColor]
              ELSE m
    IN  [m1 EXCEPT !.originalHexColor = EMPTY_STRING]

\* Variant: the input event is dispatched even when the value is unchanged.
handleHexColorBlurAlwaysDispatches(m) ==
    LET hex == m.textValue
        normalizedHexColor == normalizeHexColor(hex)
        newHexColor == IF normalizedHexColor = null
                       THEN originalHexColor ELSE normalizedHexColor
        m1 == IF hex # EMPTY_STRING /\ hex # MIXED_STRING
              THEN WriteAndDispatch(m, newHexColor)
              ELSE m
    IN  [m1 EXCEPT !.originalHexColor = EMPTY_STRING]

handleHexColorBlur(m) ==
    LET hex == m.textValue
        normalizedHexColor == normalizeHexColor(hex)
        newHexColor == IF normalizedHexColor = null
                       THEN originalHexColor ELSE normalizedHexColor
        m1 == IF hex # EMPTY_STRING /\ hex # MIXED_STRING /\ newHexColor # hex
              THEN WriteAndDispatch(m, newHexColor)
              ELSE m
    IN  [m1 EXCEPT !.originalHexColor = EMPTY_STRING]

\* The text field loses focus: its blur listener runs synchronously.
BlurTextField(m) == handleHexColorBlur([m EXCEPT !.focus = "none"])

\* lines 132-138
handleHexColorFocus(m) == [m EXCEPT !.originalHexColor = hexColor]

\* lines 66-69: focus() on the text field runs its focus listener
handleRootFocus(m) == handleHexColorFocus([m EXCEPT !.focus = "text"])

\* lines 152-165: Escape in the text field
\* Variant: the revert happens whatever revertOnEscapeKeyDown says.
HexColorEscapeAlwaysReverts(m) ==
    LET m1 == IF propagateEscapeKeyDown = FALSE
              THEN [m EXCEPT !.propagationStopped = TRUE] ELSE m
        m2 == [WriteAndDispatch(m1, originalHexColor)
                  EXCEPT !.originalHexColor = EMPTY_STRING]
    IN  BlurTextField(m2)

\* Variant: the revert writes the value back without dispatching an input event.
HexColorEscapeSilentRevert(m) ==
    LET m1 == IF propagateEscapeKeyDown = FALSE
              THEN [m EXCEPT !.propagationStopped = TRUE] ELSE m
        m2 == IF revertOnEscapeKeyDown = TRUE
              THEN [m1 EXCEPT !.textValue = originalHexColor,
                              !.originalHexColor = EMPTY_STRING]
              ELSE m1
    IN  BlurTextField(m2)

\* Variant: propagation is stopped only together with a revert.
HexColorEscapeStopsOnRevert(m) ==
    LET m1 == IF revertOnEscapeKeyDown = TRUE
              THEN [WriteAndDispatch([m EXCEPT !.propagationStopped =
                                         (propagateEscapeKeyDown = FALSE)],
                                     originalHexColor)
                       EXCEPT !.originalHexColor = EMPTY_STRING]
              ELSE m
    IN  BlurTextField(m1)

HexColorEscape(m) ==
    LET m1 == IF propagateEscapeKeyDown = FALSE
              THEN [m EXCEPT !.propagationStopped = TRUE] ELSE m
        m2 == IF revertOnEscapeKeyDown = TRUE
              THEN [WriteAndDispatch(m1, originalHexColor)
                       EXCEPT !.originalHexColor = EMPTY_STRING]
              ELSE m1
    IN  BlurTextField(m2)

\* lines 174-179
\* Variant: the two starting values are swapped.
startingHexColorSwapped(key) ==
    IF hexColor = EMPTY_STRING \/ hexColor = MIXED_STRING
    THEN IF key = "ArrowDown" THEN <<"0","0","0","0","0","0">>
                              ELSE <<"F","F","F","F","F","F">>
    ELSE hexColor

startingHexColor(key) ==
    IF hexColor = EMPTY_STRING \/ hexColor = MIXED_STRING
    THEN IF key = "ArrowDown" THEN <<"F","F","F","F","F","F">>
                              ELSE <<"0","0","0","0","0","0">>
    ELSE hexColor

\* The incrementer's contract: a 6-digit hex string.
IsHex6(s) == Len(s) = 6 /\ \A i \in 1..6 : IsHexChar(s[i])

\* lines 170-188: ArrowDown / ArrowUp in the text field.  Outside its
\* contract the incrementer gives no result and the handler ends at the call.
\* Variant: the sign of the delta is the wrong way round.
HexColorArrowSignFlipped(m, key, shiftKey) ==
    LET delta == IF shiftKey = TRUE THEN 10 ELSE 1
        start == startingHexColor(key)
        m1 == [m EXCEPT !.defaultPrevented = TRUE, !.incrementerArg = start]
    IN  IF IsHex6(start)
        THEN WriteAndDispatch(m1,
                 updateHexColor(start, IF key = "ArrowDown" THEN delta ELSE -1 * delta))
        ELSE m1

HexColorArrow(m, key, shiftKey) ==
    LET delta == IF shiftKey = TRUE THEN 10 ELSE 1
        start == startingHexColor(key)
        m1 == [m EXCEPT !.defaultPrevented = TRUE, !.incrementerArg = start]
    IN  IF IsHex6(start)
        THEN WriteAndDispatch(m1,
                 updateHexColor(start, IF key = "ArrowDown" THEN -1 * delta ELSE delta))
        ELSE m1

\* lines 149-200
\* Variant: Enter does not remove focus.
handleHexColorKeyDownEnterIgnored(m, key, shiftKey) ==
    IF key = "Escape" THEN HexColorEscape(m)
    ELSE IF key = "ArrowDown" \/ key = "ArrowUp" THEN HexColorArrow(m, key, shiftKey)
    ELSE m

handleHexColorKeyDown(m, key, shiftKey) ==
    IF key = "Escape" THEN HexColorEscape(m)
    ELSE IF key = "Enter" THEN BlurTextField(m)
    ELSE IF key = "ArrowDown" \/ key = "ArrowUp" THEN HexColorArrow(m, key, shiftKey)
    ELSE m

\* lines 202-210
handleHexColorMouseUp(m) ==
    IF hexColor # MIXED_STRING THEN m ELSE [m EXCEPT !.defaultPrevented = TRUE]

-----------------------------------------------------------------------------
(* Steps *)

\* The handlers of user event e have returned with the mutable part m.
Handled(e, m) ==
    /\ pc = "idle"
    /\ pc' = "handled"
    /\ event' = [e EXCEPT !.propagationStopped = m.propagationStopped,
                          !.defaultPrevented = m.defaultPrevented,
                          !.incrementerArg = m.incrementerArg]
    /\ pre' = [hexColor |-> hexColor, originalHexColor |-> originalHexColor,
               textValue |-> textValue, focus |-> focus]
    /\ calls' = m.calls
    /\ textValue' = m.textValue
    /\ pickerValue' = m.pickerValue
    /\ originalHexColor' = m.originalHexColor
    /\ focus' = m.focus
    /\ hexColorAtFocus' = IF m.focus # focus /\ m.focus # "none"
                          THEN hexColor ELSE hexColorAtFocus
    /\ UNCHANGED <<hexColor, propagateEscapeKeyDown, revertOnEscapeKeyDown, hostAdopts,
                   opacity>>

Event(type, key, shiftKey, value) ==
    [type |-> type, key |-> key, shiftKey |-> shiftKey, value |-> value,
     propagationStopped |-> FALSE, defaultPrevented |-> FALSE,
     incrementerArg |-> <<>>]

Idle == Event("none", "", FALSE, <<>>)

\* The outer container receives focus and hands it to the text field.
RootFocus ==
    /\ focus = "none"
    /\ Handled(Event("rootFocus", "", FALSE, <<>>), handleRootFocus(Mutable))
    /\ UNCHANGED arrowPresses

\* The user focuses the text field.
HexColorFocus ==
    /\ focus = "none"
    /\ Handled(Event("textFocus", "", FALSE, <<>>),
               handleHexColorFocus([Mutable EXCEPT !.focus = "text"]))
    /\ UNCHANGED arrowPresses

\* The user edits the text field, leaving text t in it.
HexColorInput ==
    /\ focus = "text"
    /\ \E t \in TypedTexts :
          /\ t # textValue
          /\ Handled(Event("textInput", "", FALSE, t),
                     handleHexColorInput([Mutable EXCEPT !.textValue = t]))
    /\ UNCHANGED arrowPresses

\* The text field loses focus (click or tab elsewhere).
HexColorBlur ==
    /\ focus = "text"
    /\ Handled(Event("textBlur", "", FALSE, <<>>), BlurTextField(Mutable))
    /\ UNCHANGED arrowPresses

\* A key goes down in the text field.
HexColorKeyDown ==
    /\ focus = "text"
    /\ \E key \in Keys, shiftKey \in BOOLEAN :
          /\ key \in {"ArrowUp", "ArrowDown"} => arrowPresses < MaxArrowPresses
          /\ arrowPresses' = IF key \in {"ArrowUp", "ArrowDown"}
                             THEN arrowPresses + 1 ELSE arrowPresses
          /\ Handled(Event("textKeyDown", key, shiftKey, <<>>),
                     handleHexColorKeyDown(Mutable, key, shiftKey))

\* The mouse button goes up over the focused text field.
HexColorMouseUp ==
    /\ focus = "text"
    /\ Handled(Event("textMouseUp", "", FALSE, <<>>), handleHexColorMouseUp(Mutable))
    /\ UNCHANGED arrowPresses

\* The user focuses the native colour picker.
HexColorSelectorFocus ==
    /\ focus = "none"
    /\ Handled(Event("pickerFocus", "", FALSE, <<>>),
               handleHexColorSelectorFocus([Mutable EXCEPT !.focus = "picker"]))
    /\ UNCHANGED arrowPresses

\* The user picks colour v in the native colour picker.
HexColorSelectorInput ==
    /\ focus = "picker"
    /\ \E v \in PickedColors :
          /\ v # pickerValue
          /\ Handled(Event("pickerInput", "", FALSE, v),
                     handleHexColorSelectorInput([Mutable EXCEPT !.pickerValue = v]))
    /\ UNCHANGED arrowPresses

\* A key goes down in the native colour picker.
HexColorSelectorKeyDown ==
    /\ focus = "picker"
    /\ \E key \in Keys :
          Handled(Event("pickerKeyDown", key, FALSE, <<>>),
                  handleHexColorSelectorKeyDown(Mutable, key))
    /\ UNCHANGED arrowPresses

\* The native colour picker loses focus; no listener is attached (lines 251-259).
HexColorSelectorBlur ==
    /\ focus = "picker"
    /\ Handled(Event("pickerBlur", "", FALSE, <<>>), [Mutable EXCEPT !.focus = "none"])
    /\ UNCHANGED arrowPresses

\* Values forwarded to onHexColorValueInput while handling the last event.
Forwarded == SelectSeq(calls, LAMBDA c : c.fn = "onHexColorValueInput")

\* The hexColor prop of the next render: a host that adopts stores the last
\* forwarded value.
NextHexColor ==
    IF hostAdopts /\ Forwarded # <<>>
    THEN Forwarded[Len(Forwarded)].value
    ELSE hexColor

\* The re-render scheduled by the handlers' state updates and by the host.
\* It happens when a prop or the hook state changed, and then writes the
\* value props into the two inputs.
Render ==
    /\ pc = "handled"
    /\ pc' = "idle"
    /\ hexColor' = NextHexColor
    /\ LET rerender == NextHexColor # hexColor
                         \/ originalHexColor # pre.originalHexColor
       IN  /\ textValue' = IF rerender THEN TextDisplay(NextHexColor) ELSE textValue
           /\ pickerValue' = IF rerender
                             THEN PickerDisplay(NextHexColor, originalHexColor)
                             ELSE pickerValue
    /\ event' = Idle
    /\ pre' = NoPre
    /\ calls' = <<>>
    /\ hexColorAtFocus' = IF focus = "none" THEN EMPTY_STRING ELSE hexColorAtFocus
    /\ UNCHANGED <<originalHexColor, focus, propagateEscapeKeyDown,
                   revertOnEscapeKeyDown, hostAdopts, arrowPresses, opacity>>

\* The host supplies another hexColor prop of its own.
HostSetsHexColor ==
    /\ pc = "idle"
    /\ \E v \in HostHexColors :
          /\ v # hexColor
          /\ hexColor' = v
          /\ textValue' = TextDisplay(v)
          /\ pickerValue' = PickerDisplay(v, originalHexColor)
    /\ UNCHANGED <<originalHexColor, focus, propagateEscapeKeyDown,
                   revertOnEscapeKeyDown, hostAdopts, pc, event, pre, calls,
                   hexColorAtFocus, arrowPresses, opacity>>

Init ==
    /\ hexColor \in HostHexColors
    /\ originalHexColor = EMPTY_STRING
    /\ textValue = TextDisplay(hexColor)
    /\ pickerValue = PickerDisplay(hexColor, EMPTY_STRING)
    /\ focus = "none"
    /\ propagateEscapeKeyDown \in BOOLEAN
    /\ revertOnEscapeKeyDown \in BOOLEAN
    /\ hostAdopts \in BOOLEAN
    /\ pc = "idle"
    /\ event = Idle
    /\ pre = NoPre
    /\ calls = <<>>
    /\ hexColorAtFocus = EMPTY_STRING
    /\ arrowPresses = 0
    /\ opacity = EMPTY_STRING

Next ==
    \/ RootFocus
    \/ HexColorFocus
    \/ HexColorInput
    \/ HexColorBlur
    \/ HexColorKeyDown
    \/ HexColorMouseUp
    \/ HexColorSelectorFocus
    \/ HexColorSelectorInput
    \/ HexColorSelectorKeyDown
    \/ HexColorSelectorBlur
    \/ Render
    \/ HostSetsHexColor

Spec == Init /\ [][Next]_vars

-----------------------------------------------------------------------------
(* Opacity (lines 212, 240-248, 276-289, 296-301).  The opacity prop is a  *)
(* channel of its own: no handler of the component reads or writes it, so  *)
(* it is exercised by a specification of its own, in which the host walks  *)
(* through the opacity strings.                                            *)

\* maximum={100}
MaxOpacity == 100

DecDigits == SubSeq(HexDigits, 1, 10)

IsDecDigit(c) == \E i \in 1..10 : DecDigits[i] = c

\* The decimal numeral of n, as the host writes it.
RECURSIVE IntToDec(_)
IntToDec(n) ==
    IF n < 10 THEN << DecDigits[n + 1] >>
    ELSE IntToDec(n \div 10) \o << DecDigits[(n % 10) + 1] >>

\* Not-a-number.
NaN == [nan |-> TRUE]

RECURSIVE DecValue(_, _)
DecValue(s, acc) ==
    IF s = <<>> \/ ~IsDecDigit(s[1]) THEN acc
    ELSE DecValue(Tail(s), acc * 10 + HexVal(s[1]))

\* parseInt(s, 10) of a string without sign or blanks: the value of its
\* leading digits, NaN when there are none.
parseInt(s) ==
    IF s = <<>> \/ ~IsDecDigit(s[1]) THEN NaN ELSE [num |-> DecValue(s, 0), den |-> 1]

\* x / 100
DividedBy100(x) == IF x = NaN THEN NaN ELSE [num |-> x.num, den |-> x.den * 100]

\* x === 1
IsOne(x) == x # NaN /\ x.num = x.den

\* lines 296-301
\* Variant: the empty string is not treated as opaque.
parseOpacityEmptyNotOpaque(o) ==
    IF o = MIXED_STRING THEN [num |-> 1, den |-> 1] ELSE DividedBy100(parseInt(o))

parseOpacity(o) ==
    IF o = MIXED_STRING \/ o = EMPTY_STRING
    THEN [num |-> 1, den |-> 1]
    ELSE DividedBy100(parseInt(o))

\* line 212
parsedOpacity == parseOpacity(opacity)

\* lines 240-248: the second colour fill is rendered
OverlayRendered == ~IsOne(parsedOpacity)

\* line 288: the value given to the numeric sub-field
OpacityFieldValue == opacity

\* Opacity props a host supplies: unset, mixed, or an integer percentage.
OpacityValues ==
    { EMPTY_STRING, MIXED_STRING } \cup { IntToDec(n) : n \in 0..MaxOpacity }

InitOpacity ==
    /\ Init
    /\ hexColor = EMPTY_STRING
    /\ propagateEscapeKeyDown
    /\ ~revertOnEscapeKeyDown
    /\ hostAdopts

\* The host supplies another opacity prop.
HostSetsOpacity ==
    /\ pc = "idle"
    /\ \E o \in OpacityValues :
          /\ o # opacity
          /\ opacity' = o
    /\ UNCHANGED <<hexColor, originalHexColor, textValue, pickerValue, focus,
                   propagateEscapeKeyDown, revertOnEscapeKeyDown, hostAdopts, pc,
                   event, pre, calls, hexColorAtFocus, arrowPresses>>

NextOpacity == HostSetsOpacity

SpecOpacity == InitOpacity /\ [][NextOpacity]_vars

-----------------------------------------------------------------------------
(* Properties *)

LastForwarded == Forwarded[Len(Forwarded)].value

\* The two observer calls of one input event on the text field carrying v.
InputCalls(v) == << Call("onHexColorInput", v), Call("onHexColorValueInput", v) >>

Rejected(t) == t # EMPTY_STRING /\ t # MIXED_STRING /\ normalizeHexColor(t) = null

Accepted(t) == t # EMPTY_STRING /\ t # MIXED_STRING /\ normalizeHexColor(t) # null

TextBlurred == pc = "handled" /\ event.type = "textBlur"

TextEscaped == pc = "handled" /\ event.type = "textKeyDown" /\ event.key = "Escape"

\* C1: when the text field is blurred while it holds a non-empty, non-mixed
\* text the normalizer rejects, the field then holds the hexColor value that
\* was present when the field gained focus, and that value was forwarded to
\* onHexColorValueInput.
C1_BlurRevertsRejectedText ==
    (TextBlurred /\ Rejected(pre.textValue)) =>
        /\ textValue = hexColorAtFocus
        /\ Forwarded # <<>>
        /\ LastForwarded = hexColorAtFocus

C1_Witness ==
    /\ TextBlurred
    /\ pre.textValue = <<"z","z","z","z","z","z">>
    /\ hexColorAtFocus = <<"F","F","0","0","C","C">>
    /\ textValue = <<"F","F","0","0","C","C">>

\* C2: with revertOnEscapeKeyDown, after Escape in the text field (and the
\* blur it causes) the field holds the hexColor value present at focus, the
\* last value forwarded to onHexColorValueInput is that value, focus is
\* gone and OriginalHexColor is empty.
C2_EscapeReverts ==
    (TextEscaped /\ revertOnEscapeKeyDown) =>
        /\ textValue = hexColorAtFocus
        /\ Forwarded # <<>>
        /\ LastForwarded = hexColorAtFocus
        /\ originalHexColor = EMPTY_STRING
        /\ focus = "none"

C2_Witness ==
    /\ TextEscaped
    /\ revertOnEscapeKeyDown
    /\ pre.textValue = <<"f","0","c">>
    /\ hexColorAtFocus = <<"F","F","0","0","C","C">>
    /\ textValue = <<"F","F","0","0","C","C">>

\* C3 as stated: without revertOnEscapeKeyDown, after Escape in the text
\* field (and the blur it causes) the field holds exactly the edited text,
\* whatever it is, and nothing was forwarded.
C3_EscapeLeavesTextInPlace ==
    (TextEscaped /\ ~revertOnEscapeKeyDown) =>
        /\ textValue = pre.textValue
        /\ calls = <<>>
        /\ focus = "none"

\* C3 amended: without revertOnEscapeKeyDown, Escape removes focus and the
\* key handler writes and forwards nothing itself; the blur it causes then
\* normalizes as any blur does: text that is empty, the mixed sentinel or
\* already canonical stays and nothing is forwarded; accepted non-canonical
\* text is replaced by its normal form and rejected text by OriginalHexColor,
\* each forwarded by one synthetic input event (no event when the rejected
\* text already equals OriginalHexColor).
C3_EscapeOnlyBlurs ==
    (TextEscaped /\ ~revertOnEscapeKeyDown) =>
        LET t == pre.textValue
            n == normalizeHexColor(t)
            new == IF t = EMPTY_STRING \/ t = MIXED_STRING \/ IsCanonicalHex(t) THEN t
                   ELSE IF n # null THEN n
                   ELSE pre.originalHexColor
        IN  /\ focus = "none"
            /\ textValue = new
            /\ calls = IF new = t THEN <<>> ELSE InputCalls(new)

C3_Witness ==
    /\ TextEscaped
    /\ ~revertOnEscapeKeyDown
    /\ pre.textValue = <<"F","F","0","0","C","C">>
    /\ pre.hexColor = <<"0","0","0","0","0","0">>
    /\ textValue = <<"F","F","0","0","C","C">>
    /\ calls = <<>>

\* C4: after every render the colour given to the swatch and to the native
\* colour picker is a 6-character uppercase hex string: FFFFFF when hexColor
\* is empty or mixed, the normalized hexColor when hexColor is accepted.
C4_RenderedHexColorCanonical ==
    pc = "idle" =>
        LET r == renderedHexColor(hexColor, originalHexColor)
        IN  /\ IsCanonicalHex(r)
            /\ (hexColor = EMPTY_STRING \/ hexColor = MIXED_STRING) => r = EMPTY_HEX_COLOR
            /\ Accepted(hexColor) => r = normalizeHexColor(hexColor)

\* C5: whenever neither surface has focus, OriginalHexColor is the empty
\* string.
C5_OriginalClearedWhenUnfocused ==
    focus = "none" => originalHexColor = EMPTY_STRING

\* C6: when the picker's input handler returns, the text field holds the
\* picker's value upper-cased without its '#', and onHexColorInput and
\* onHexColorValueInput have been called with that value by the synthetic
\* input event.
C6_PickerInputUpdatesTextField ==
    (pc = "handled" /\ event.type = "pickerInput") =>
        LET v == ToUpperCase(Slice1(event.value))
        IN  /\ IsCanonicalHex(v)
            /\ event.value = <<"#","1","2","3","a","b","c">> => v = <<"1","2","3","A","B","C">>
            /\ textValue = v
            /\ Len(calls) >= 2
            /\ SubSeq(calls, Len(calls) - 1, Len(calls)) = InputCalls(v)

C6_Witness ==
    /\ pc = "handled"
    /\ event.type = "pickerInput"
    /\ event.value = <<"#","1","2","3","a","b","c">>
    /\ textValue = <<"1","2","3","A","B","C">>
    /\ pre.textValue # textValue

\* C7: when the text field is blurred while it holds a non-empty, non-mixed
\* text the normalizer accepts, then if the 6-digit uppercase normal form
\* differs from the text, the field holds the normal form and exactly one
\* input event forwarded it; if the text is canonical, the field is
\* unchanged and no observer was called.
C7_BlurCanonicalizes ==
    (TextBlurred /\ Accepted(pre.textValue)) =>
        LET t == pre.textValue
            n == normalizeHexColor(t)
        IN  /\ IsCanonicalHex(n)
            /\ t = <<"f","0","c">> => n = <<"F","F","0","0","C","C">>
            /\ t = <<"#","A","B","C","D","E","F">> => n = <<"A","B","C","D","E","F">>
            /\ textValue = n
            /\ calls = IF n # t THEN InputCalls(n) ELSE <<>>

C7_Witness ==
    /\ TextBlurred
    /\ pre.textValue = <<"f","0","c">>
    /\ textValue = <<"F","F","0","0","C","C">>
    /\ calls = InputCalls(<<"F","F","0","0","C","C">>)

ArrowPressed == pc = "handled" /\ event.type = "textKeyDown"
                  /\ event.key \in {"ArrowUp", "ArrowDown"}

\* C8: when hexColor is empty or the mixed sentinel, ArrowUp writes and
\* forwards 000001 (00000A with Shift), one step up from 000000, and
\* ArrowDown writes and forwards FFFFFE (FFFFF5 with Shift), one step down
\* from FFFFFF.
C8_ArrowOnUnsetField ==
    (ArrowPressed /\ (pre.hexColor = EMPTY_STRING \/ pre.hexColor = MIXED_STRING)) =>
        LET new == IF event.key = "ArrowUp"
                   THEN IF event.shiftKey THEN <<"0","0","0","0","0","A">>
                                          ELSE <<"0","0","0","0","0","1">>
                   ELSE IF event.shiftKey THEN <<"F","F","F","F","F","5">>
                                          ELSE <<"F","F","F","F","F","E">>
        IN  /\ textValue = new
            /\ calls = InputCalls(new)

C8_Witness ==
    /\ ArrowPressed
    /\ event.key = "ArrowDown"
    /\ event.shiftKey
    /\ pre.hexColor = MIXED_STRING
    /\ textValue = <<"F","F","F","F","F","5">>

\* C9: propagation of a key event is stopped exactly when the key is
\* Escape, on the text field or the colour picker, and
\* propagateEscapeKeyDown is false, whatever revertOnEscapeKeyDown is.
C9_EscapePropagation ==
    pc = "handled" =>
        (event.propagationStopped <=>
            /\ event.type \in {"textKeyDown", "pickerKeyDown"}
            /\ event.key = "Escape"
            /\ ~propagateEscapeKeyDown)

C9_Witness ==
    /\ pc = "handled"
    /\ event.type = "pickerKeyDown"
    /\ event.key = "Escape"
    /\ ~propagateEscapeKeyDown
    /\ ~revertOnEscapeKeyDown
    /\ event.propagationStopped

\* C10: when the text field or the colour picker gains focus,
\* OriginalHexColor becomes the hexColor prop, whatever it is; and an
\* Escape-revert from the picker forwards the hexColor that was in effect
\* when the picker gained focus.
C10_FocusSnapshotsHexColor ==
    /\ (pc = "handled" /\ event.type \in {"textFocus", "rootFocus", "pickerFocus"})
          => originalHexColor = pre.hexColor
    /\ (pc = "handled" /\ event.type = "pickerKeyDown" /\ event.key = "Escape"
          /\ revertOnEscapeKeyDown)
          => (Forwarded # <<>> /\ LastForwarded = hexColorAtFocus)

\* The signed delta of the arrow key pressed last.
ArrowDelta == (IF event.key = "ArrowDown" THEN -1 ELSE 1) * (IF event.shiftKey THEN 10 ELSE 1)

\* C11: when the text field holds a 6-digit hex text, ArrowUp/ArrowDown
\* compute the new value from the text in the field, with delta +1/-1 or
\* +10/-10 under Shift, write it into the field and forward it as one input
\* event does, whether or not the host has re-supplied the text as hexColor.
C11_ArrowStartsFromFieldText ==
    (ArrowPressed /\ IsHex6(pre.textValue)) =>
        LET new == updateHexColor(pre.textValue, ArrowDelta)
        IN  /\ textValue = new
            /\ calls = InputCalls(new)

\* C12: whenever ArrowUp/ArrowDown calls the incrementer, its hex argument
\* is a 6-digit hex string.
C12_IncrementerArgumentValid ==
    ArrowPressed => IsHex6(event.incrementerArg)

\* C13: from a canonical 6-digit hexColor, every arrow press writes and
\* forwards a 6-digit uppercase value that is the old value plus the delta,
\* held within 000000..FFFFFF: ArrowUp at FFFFFF gives FFFFFF and ArrowDown
\* at 000000 gives 000000.
C13_ArrowClamped ==
    (ArrowPressed /\ IsCanonicalHex(pre.hexColor)) =>
        LET from == HexToInt(pre.hexColor)
            sum  == from + ArrowDelta
        IN  /\ IsCanonicalHex(textValue)
            /\ calls = InputCalls(textValue)
            /\ HexToInt(textValue) = IF sum < 0 THEN 0
                                     ELSE IF sum > 16777215 THEN 16777215 ELSE sum
            /\ (event.key = "ArrowUp" /\ pre.hexColor = <<"F","F","F","F","F","F">>)
                  => textValue = <<"F","F","F","F","F","F">>
            /\ (event.key = "ArrowDown" /\ pre.hexColor = <<"0","0","0","0","0","0">>)
                  => textValue = <<"0","0","0","0","0","0">>

C13_Witness ==
    /\ ArrowPressed
    /\ event.key = "ArrowUp"
    /\ event.shiftKey
    /\ pre.hexColor = <<"F","F","F","F","F","F">>
    /\ textValue = <<"F","F","F","F","F","F">>
    /\ arrowPresses = 2

\* The text field lost focus while the last event was handled.
TextLostFocus ==
    /\ pc = "handled"
    /\ \/ event.type = "textBlur"
       \/ event.type = "textKeyDown" /\ event.key \in {"Escape", "Enter"}

\* C14: the handlers of one user event make at most three observer calls;
\* after the text field lost focus its text is one that a further blur
\* leaves alone (empty, the sentinel, or its own normal form); and an
\* Escape-revert, from the text field or from the picker, dispatches its one
\* input event and the blur that follows dispatches none.
C14_NoSyntheticEventLoop ==
    pc = "handled" =>
        /\ Len(calls) <= 3
        /\ TextLostFocus =>
              \/ textValue = EMPTY_STRING
              \/ textValue = MIXED_STRING
              \/ normalizeHexColor(textValue) = textValue
        /\ (event.type \in {"textKeyDown", "pickerKeyDown"} /\ event.key = "Escape"
              /\ revertOnEscapeKeyDown)
              => calls = InputCalls(pre.originalHexColor)

C14_Witness ==
    /\ TextEscaped
    /\ revertOnEscapeKeyDown
    /\ pre.textValue = <<"z","z","z","z","z","z">>
    /\ pre.originalHexColor = <<"0","0","0","0","0","0">>
    /\ calls = InputCalls(<<"0","0","0","0","0","0">>)

\* The outcome of a blur of the text field from the state in `pre`.
AsAfterBlur ==
    LET t == pre.textValue
        n == normalizeHexColor(t)
        new == IF t = EMPTY_STRING \/ t = MIXED_STRING THEN t
               ELSE IF n # null THEN n
               ELSE pre.originalHexColor
    IN  /\ focus = "none"
        /\ originalHexColor = EMPTY_STRING
        /\ textValue = new
        /\ calls = IF new = t THEN <<>> ELSE InputCalls(new)

\* C15: Enter in the text field prevents and stops nothing, and leaves the
\* field value, OriginalHexColor, focus and observer calls exactly as a
\* plain blur from the same state leaves them.
C15_EnterEqualsBlur ==
    /\ TextBlurred => AsAfterBlur
    /\ (pc = "handled" /\ event.type = "textKeyDown" /\ event.key = "Enter") =>
          /\ AsAfterBlur
          /\ ~event.defaultPrevented
          /\ ~event.propagationStopped

C15_Witness ==
    /\ pc = "handled"
    /\ event.type = "textKeyDown"
    /\ event.key = "Enter"
    /\ pre.textValue = <<"#","A","B","C","D","E","F">>
    /\ textValue = <<"A","B","C","D","E","F">>
    /\ focus = "none"

C18_ClosedLoopCanonical ==
    (hostAdopts /\ pc = "idle" /\ focus = "none") =>
        \/ hexColor = EMPTY_STRING
        \/ hexColor = MIXED_STRING
        \/ IsCanonicalHex(hexColor)

C18_Witness ==
    /\ hostAdopts
    /\ pc = "idle"
    /\ focus = "none"
    /\ hexColor = <<"A","B","C","D","E","F">>

\* C19: blurring the text field in the state its focus left it in (hexColor
\* empty, the sentinel or canonical, nothing edited) calls no observer and
\* leaves the field's value unchanged.
C19_FocusThenBlurIsNoOp ==
    (/\ TextBlurred
     /\ pre.hexColor = hexColorAtFocus
     /\ pre.originalHexColor = hexColorAtFocus
     /\ pre.textValue = (IF hexColorAtFocus = MIXED_STRING THEN MixedText ELSE hexColorAtFocus)
     /\ \/ hexColorAtFocus = EMPTY_STRING
        \/ hexColorAtFocus = MIXED_STRING
        \/ IsCanonicalHex(hexColorAtFocus))
    => (calls = <<>> /\ textValue = pre.textValue)

\* C20: one input event of the picker with value #v gives exactly the calls
\* onHexColorValueInput(V), onHexColorInput(V), onHexColorValueInput(V), V
\* being v in upper case; one input event of the text field gives exactly
\* onHexColorInput then onHexColorValueInput with the field's text.
C20_CallbackOrder ==
    /\ (pc = "handled" /\ event.type = "pickerInput") =>
          LET v == ToUpperCase(Slice1(event.value))
          IN  /\ event.value = <<"#","f","f","0","0","c","c">> => v = <<"F","F","0","0","C","C">>
              /\ calls = << Call("onHexColorValueInput", v),
                            Call("onHexColorInput", v),
                            Call("onHexColorValueInput", v) >>
    /\ (pc = "handled" /\ event.type = "textInput") =>
          /\ textValue = event.value
          /\ calls = << Call("onHexColorInput", event.value),
                        Call("onHexColorValueInput", event.value) >>

C20_Witness ==
    /\ pc = "handled"
    /\ event.type = "pickerInput"
    /\ event.value = <<"#","f","f","0","0","c","c">>
    /\ Len(calls) = 3
    /\ calls[1].value = <<"F","F","0","0","C","C">>

\* C17: parseOpacity gives 1 for the empty string and for the sentinel and
\* n/100 for the numeral of every integer n in 0..100 ("50" gives 50/100);
\* the second colour fill is rendered exactly when the parsed opacity is
\* not 1; and the numeric sub-field is given the opacity prop itself.
C17_OpacityParsing ==
    /\ (opacity = EMPTY_STRING \/ opacity = MIXED_STRING) => parsedOpacity = [num |-> 1, den |-> 1]
    /\ \A n \in 0..MaxOpacity :
          opacity = IntToDec(n) => parsedOpacity = [num |-> n, den |-> 100]
    /\ opacity = <<"5","0">> => parsedOpacity = [num |-> 50, den |-> 100]
    /\ OverlayRendered <=>
          opacity \notin { EMPTY_STRING, MIXED_STRING, <<"1","0","0">> }
    /\ OpacityFieldValue = opacity

C17_Witness ==
    /\ opacity = <<"5","0">>
    /\ parsedOpacity = [num |-> 50, den |-> 100]
    /\ OverlayRendered

====
